---- MODULE Spec2Model ----
(***************************************************************************)
(* Model of app/main.py of onvif-to-rtsp: the announcement loop of main(), *)
(* the request builder rtsp_uri_to_request_message, parse_url and the      *)
(* library functions they call (html.unescape, urlparse, parse_qs).        *)
(*                                                                         *)
(* Text is modelled as a sequence of lexemes: each delimiter character     *)
(* (":", "/", "?", "#", "@", "&", "=", ";", ",", " ") is one lexeme and    *)
(* each maximal run of other characters (a word) is one lexeme.  The       *)
(* library functions scan for delimiters exactly as the Python code does.  *)
(* The request timestamp (wall clock) is not part of the model.            *)
(***************************************************************************)
EXTENDS Integers, Sequences, FiniteSets, TLC

(***************************************************************************)
(* Bounds of the model.                                                    *)
(***************************************************************************)
MaxCfgLen == 3        \* lexemes in the raw PROFILE_INDEX value
MaxProfiles == 2      \* profiles the device may return

(***************************************************************************)
(* Program constants.                                                      *)
(***************************************************************************)
RequestTimeout == 10  \* rtsp_stream_endpoint.request(..., timeout=10.0)
SleepSeconds == 1     \* time.sleep(1)
MaxPort == 65535      \* urllib: "Port out of range 0-65535"

(***************************************************************************)
(* Generic helpers on lexeme sequences.                                    *)
(***************************************************************************)
\* str.find for a set of lexemes: the first position >= from holding one of
\* them, 0 when there is none.
FindFrom(s, from, set) ==
    LET hits == {i \in from..Len(s) : s[i] \in set}
    IN  IF hits = {} THEN 0 ELSE CHOOSE i \in hits : \A j \in hits : i <= j

Find(s, set) == FindFrom(s, 1, set)

\* str.rfind
RFind(s, set) ==
    LET hits == {i \in 1..Len(s) : s[i] \in set}
    IN  IF hits = {} THEN 0 ELSE CHOOSE i \in hits : \A j \in hits : i >= j

\* The element of a set of one element.  {F(v) : v \in {e}} evaluates e once,
\* however often F uses it.
The(S) == CHOOSE x \in S : TRUE

Before(s, i) == SubSeq(s, 1, i - 1)
After(s, i) == SubSeq(s, i + 1, Len(s))

\* The words made of digits only, and their values under int().
DigitWords == {"0", "1", "2", "554", "70000"}

IsDigitWord(w) == w \in DigitWords

IntOfDigits(w) ==
    CASE w = "0" -> 0
      [] w = "1" -> 1
      [] w = "2" -> 2
      [] w = "554" -> 554
      [] w = "70000" -> 70000

\* str(n) for the integers of the model.
str(n) ==
    CASE n = 0 -> "0"
      [] n = 1 -> "1"
      [] n = 2 -> "2"
      [] n = 554 -> "554"

Delimiters == {":", "/", "?", "#", "@", "&", "=", ";", ",", " ", "<", "-"}

\* The other words are ASCII letters and digits and start with a letter.
IsAlphaWord(w) == w \notin Delimiters /\ w \notin DigitWords

\* str.lower
LowerWord(w) ==
    CASE w = "RTSP" -> "rtsp"
      [] w = "CAM" -> "cam"
      [] OTHER -> w

Lower(s) == [i \in 1..Len(s) |-> LowerWord(s[i])]

(***************************************************************************)
(* html.unescape (main.py line 26).  A character reference is "&", a name  *)
(* and an optional ";"; the names of the model are the HTML5 names amp and *)
(* lt, which html.unescape also accepts without the semicolon.  The scan   *)
(* is left to right and the replacement text is not scanned again.         *)
(***************************************************************************)
EntityChar(w) ==
    CASE w = "amp" -> "&"
      [] w = "lt" -> "<"

IsEntityName(w) == w \in {"amp", "lt"}

RECURSIVE html_unescape(_)
html_unescape(s) ==
    IF s = <<>> THEN <<>>
    ELSE IF s[1] = "&" /\ Len(s) >= 2 /\ IsEntityName(s[2])
         THEN IF Len(s) >= 3 /\ s[3] = ";"
              THEN <<EntityChar(s[2])>> \o html_unescape(Tail(Tail(Tail(s))))
              ELSE <<EntityChar(s[2])>> \o html_unescape(Tail(Tail(s)))
         ELSE <<s[1]>> \o html_unescape(Tail(s))

(***************************************************************************)
(* urllib.parse.urlparse (main.py lines 29, 66, 76).                       *)
(***************************************************************************)
uses_params == {<<>>, <<"rtsp">>}

\* The scheme is the text before the first ":" when it starts with a letter
\* and holds only scheme characters; it is lower-cased.
HasScheme(url) ==
    LET i == Find(url, {":"})
    IN  /\ i > 1
        /\ IsAlphaWord(url[1])
        /\ \A j \in 1..(i - 1) : IsAlphaWord(url[j]) \/ IsDigitWord(url[j])

\* _splitparams: the parameters start at the first ";" of the last path
\* segment.
splitparams(url) ==
    LET slash == RFind(url, {"/"})
        i == IF slash > 0 THEN FindFrom(url, slash, {";"}) ELSE Find(url, {";"})
    IN  IF i = 0 THEN [path |-> url, params |-> <<>>]
        ELSE [path |-> Before(url, i), params |-> After(url, i)]

\* The steps of urlsplit and urlparse in their order: the scheme, the network
\* location (after "//", up to the first "/", "?" or "#"), the fragment (after
\* the first "#"), the query (after the first "?") and the parameters.
SchemeOf(uri) == IF HasScheme(uri) THEN Lower(Before(uri, Find(uri, {":"}))) ELSE <<>>
AfterScheme(uri) == IF HasScheme(uri) THEN After(uri, Find(uri, {":"})) ELSE uri

HasNetloc(url) == Len(url) >= 2 /\ url[1] = "/" /\ url[2] = "/"

NetlocEnd(url) ==
    IF FindFrom(url, 3, {"/", "?", "#"}) = 0
    THEN Len(url) + 1
    ELSE FindFrom(url, 3, {"/", "?", "#"})

NetlocOf(url) == IF HasNetloc(url) THEN SubSeq(url, 3, NetlocEnd(url) - 1) ELSE <<>>
AfterNetloc(url) == IF HasNetloc(url) THEN SubSeq(url, NetlocEnd(url), Len(url)) ELSE url

\* str.split(sep, 1)
Head1(url, sep) == IF Find(url, {sep}) = 0 THEN url ELSE Before(url, Find(url, {sep}))
Tail1(url, sep) == IF Find(url, {sep}) = 0 THEN <<>> ELSE After(url, Find(url, {sep}))

ParamsOf(scheme, url) ==
    IF scheme \in uses_params /\ Find(url, {";"}) > 0
    THEN splitparams(url)
    ELSE [path |-> url, params |-> <<>>]

SplitParams(scheme, netloc, url, query, fragment) ==
    The({[scheme |-> scheme, netloc |-> netloc, path |-> sp.path,
          params |-> sp.params, query |-> query, fragment |-> fragment] :
            sp \in {ParamsOf(scheme, url)}})

SplitQuery(scheme, netloc, url, fragment) ==
    The({SplitParams(scheme, netloc, Head1(v, "?"), Tail1(v, "?"), fragment) :
            v \in {url}})

SplitFragment(scheme, netloc, url) ==
    The({SplitQuery(scheme, netloc, Head1(v, "#"), Tail1(v, "#")) : v \in {url}})

SplitNetloc(scheme, url) ==
    The({SplitFragment(scheme, NetlocOf(v), AfterNetloc(v)) : v \in {url}})

urlparse(uri) == The({SplitNetloc(SchemeOf(u), AfterScheme(u)) : u \in {uri}})

\* netloc.rpartition("@")[2]
hostinfo(parsed) ==
    LET at == RFind(parsed.netloc, {"@"})
    IN  IF at = 0 THEN parsed.netloc ELSE After(parsed.netloc, at)

\* ParseResult.hostname: the host part lower-cased; None (here <<>>, which
\* hostname never returns otherwise) when it is empty.
hostname(parsed) ==
    LET h == hostinfo(parsed)
        colon == Find(h, {":"})
    IN  Lower(IF colon = 0 THEN h ELSE Before(h, colon))

\* ParseResult.port: None without a port, the integer for a port of digits in
\* range, ValueError otherwise.
PortNone == [kind |-> "none", val |-> 0]
PortError == [kind |-> "ValueError", val |-> 0]

port(parsed) ==
    LET h == hostinfo(parsed)
        colon == Find(h, {":"})
        p == IF colon = 0 THEN <<>> ELSE After(h, colon)
    IN  IF p = <<>> THEN PortNone
        ELSE IF Len(p) = 1 /\ IsDigitWord(p[1])
             THEN IF IntOfDigits(p[1]) <= MaxPort
                  THEN [kind |-> "int", val |-> IntOfDigits(p[1])]
                  ELSE PortError
             ELSE PortError

(***************************************************************************)
(* urllib.parse.parse_qs (main.py line 42): the fields are separated by    *)
(* "&"; a field without "=" or with an empty value is dropped; the values  *)
(* of a name are kept in the order of the fields.                          *)
(***************************************************************************)
RECURSIVE SplitOn(_, _)
SplitOn(s, sep) ==
    LET i == Find(s, {sep})
    IN  IF i = 0 THEN <<s>> ELSE <<Before(s, i)>> \o SplitOn(After(s, i), sep)

RECURSIVE qsl_of(_)
qsl_of(fields) ==
    IF fields = <<>> THEN <<>>
    ELSE LET f == fields[1]
             eq == Find(f, {"="})
         IN  IF eq = 0 \/ After(f, eq) = <<>>
             THEN qsl_of(Tail(fields))
             ELSE <<[name |-> Before(f, eq), value |-> After(f, eq)]>>
                      \o qsl_of(Tail(fields))

parse_qsl(query) == qsl_of(SplitOn(query, "&"))

\* {k: v[0] for k, v in parse_qs(query).items()}
FirstValues(query) ==
    LET pairs == parse_qsl(query)
        names == {pairs[i].name : i \in 1..Len(pairs)}
    IN  [n \in names |->
            pairs[CHOOSE i \in 1..Len(pairs) :
                    /\ pairs[i].name = n
                    /\ \A j \in 1..(i - 1) : pairs[j].name # n].value]

(***************************************************************************)
(* parse_url (main.py lines 65-72).  Reading parsed.port raises ValueError *)
(* for a port that is not a number in range.                               *)
(***************************************************************************)
parse_url(url) ==
    The({[raised |-> port(parsed).kind = "ValueError",
          protocol |-> parsed.scheme,
          ip |-> hostname(parsed),
          port |-> port(parsed),
          url_suffix |-> parsed.path] : parsed \in {urlparse(url)}})

(***************************************************************************)
(* rtsp_uri_to_request_message (main.py lines 24-62).  A field given as    *)
(* None to a message constructor is left at its default ("" or 0).         *)
(***************************************************************************)
EntityPrefix == <<"/", "rtsp_request">>

NoRequest == [raised |-> TRUE]

rtsp_uri_to_request_message_netloc(rtsp_uri, username, password) ==
    The({IF port(parsed).kind = "ValueError" THEN NoRequest
         ELSE [raised |-> FALSE,
               header |-> [entity_path |-> EntityPrefix \o parsed.path],
               endpoint |-> [header |-> [entity_path |-> EntityPrefix \o parsed.path],
                             protocol |-> parsed.scheme,
                             host |-> parsed.netloc,
                             port |-> port(parsed).val,
                             path |-> parsed.path,
                             query_params |-> FirstValues(parsed.query)],
               method |-> "PLAY",
               digest_auth |-> [header |-> [entity_path |-> EntityPrefix \o parsed.path],
                                username |-> username,
                                password |-> password,
                                algorithm |-> "MD5"]] :
            parsed \in {urlparse(html_unescape(rtsp_uri))}})

rtsp_uri_to_request_message(rtsp_uri, username, password) ==
    The({IF port(parsed).kind = "ValueError" THEN NoRequest
         ELSE [raised |-> FALSE,
               header |-> [entity_path |-> EntityPrefix \o parsed.path],
               endpoint |-> [header |-> [entity_path |-> EntityPrefix \o parsed.path],
                             protocol |-> parsed.scheme,
                             host |-> hostname(parsed),
                             port |-> port(parsed).val,
                             path |-> parsed.path,
                             query_params |-> FirstValues(parsed.query)],
               method |-> "PLAY",
               digest_auth |-> [header |-> [entity_path |-> EntityPrefix \o parsed.path],
                                username |-> username,
                                password |-> password,
                                algorithm |-> "MD5"]] :
            parsed \in {urlparse(html_unescape(rtsp_uri))}})

(***************************************************************************)
(* The PROFILE_INDEX decoder (main.py lines 105-108):                      *)
(*   [int(x.strip()) for x in s.split(",") if x.strip()]                   *)
(***************************************************************************)
RECURSIVE lstrip(_)
lstrip(s) == IF s # <<>> /\ s[1] = " " THEN lstrip(Tail(s)) ELSE s

RECURSIVE rstrip(_)
rstrip(s) ==
    IF s # <<>> /\ s[Len(s)] = " " THEN rstrip(SubSeq(s, 1, Len(s) - 1)) ELSE s

strip(s) == rstrip(lstrip(s))

\* int(): an optional sign and digits; anything else raises ValueError.
IntError == [raised |-> TRUE, value |-> 0]

int(s) ==
    IF Len(s) = 1 /\ IsDigitWord(s[1])
    THEN [raised |-> FALSE, value |-> IntOfDigits(s[1])]
    ELSE IF Len(s) = 2 /\ s[1] = "-" /\ IsDigitWord(s[2])
         THEN [raised |-> FALSE, value |-> 0 - IntOfDigits(s[2])]
         ELSE IntError

RECURSIVE decode_entries(_)
decode_entries(parts) ==
    IF parts = <<>> THEN [raised |-> FALSE, value |-> <<>>]
    ELSE LET x == strip(parts[1])
             rest == decode_entries(Tail(parts))
         IN  IF x = <<>> THEN rest
             ELSE IF int(x).raised \/ rest.raised
                  THEN [raised |-> TRUE, value |-> <<>>]
                  ELSE [raised |-> FALSE, value |-> <<int(x).value>> \o rest.value]

decode(s) == decode_entries(SplitOn(s, ","))

\* max() of a non-empty list
Max(seq) == CHOOSE m \in {seq[i] : i \in 1..Len(seq)} :
                \A i \in 1..Len(seq) : seq[i] <= m

(***************************************************************************)
(* The inputs of main(): the raw PROFILE_INDEX value, the credentials and  *)
(* what the device may answer.                                             *)
(***************************************************************************)
ConfigAlphabet == {",", " ", "-", "0", "1", "2"}

RECURSIVE SeqsUpTo(_, _)
SeqsUpTo(S, n) ==
    IF n = 0 THEN {<<>>}
    ELSE LET shorter == SeqsUpTo(S, n - 1)
         IN  shorter \cup {Append(t, x) : t \in {u \in shorter : Len(u) = n - 1}, x \in S}

\* A text is a sequence of lexemes in which no two words are adjacent (two
\* adjacent words would be one word).
IsText(t) ==
    \A i \in 1..(Len(t) - 1) : ~(IsDigitWord(t[i]) /\ IsDigitWord(t[i + 1]))

\* PROFILE_INDEX is absent, or a text of at most MaxCfgLen lexemes.
ConfigValues ==
    {[present |-> FALSE, text |-> <<>>]}
        \cup {[present |-> TRUE, text |-> t] :
                 t \in {u \in SeqsUpTo(ConfigAlphabet, MaxCfgLen) : IsText(u)}}

Track1Uri == <<"rtsp", ":", "/", "/", "cam", "/", "track1">>
Track2Uri == <<"rtsp", ":", "/", "/", "cam", "/", "track2">>
EscapedUri == <<"rtsp", ":", "/", "/", "CAM", ":", "554", "/", "track1",
                "?", "x", "=", "1", "&", "amp", ";", "y", "=", "2">>
BadPortUri == <<"rtsp", ":", "/", "/", "cam", ":", "x", "/", "track1">>

CredentialsUri == <<"rtsp", ":", "/", "/", "admin", ":", "pw", "@", "cam", "/", "track1">>

\* The stream URIs GetStreamUri may return.
DeviceUris == {Track1Uri, Track2Uri, EscapedUri, BadPortUri, CredentialsUri}

\* The profile list of a device with n profiles: profile k has token k.
ProfileList(n) == [i \in 1..n |-> [token |-> i - 1]]

NoProfile == [token |-> -1]

\* Lines 131-136: the GetStreamUri request for a profile.
GetStreamUriRequest(profile) ==
    [ProfileToken |-> profile.token,
     StreamSetup |-> [Stream |-> "RTP-Unicast", Transport |-> [Protocol |-> "RTSP"]]]

NoStreamReq == GetStreamUriRequest(NoProfile)

(***************************************************************************)
(* State of main().  pc is the position in main() and error the exception  *)
(* that ended it; profile_indices, profiles, default_profile, stream_uri   *)
(* and rtsp_request are its locals (a Python local keeps its value until   *)
(* it is assigned again); pos is the position of the for loop's iterator   *)
(* in profile_indices; outcome is the answer of the call in progress.      *)
(* History variables: cycle_log, the submissions of the cycle in progress; *)
(* prev_outcomes, the outcomes of the cycle before it; fetched and built,  *)
(* whether stream_uri and rtsp_request were assigned in the iteration in   *)
(* progress; profile_fetches, the number of GetProfiles calls; waited, the *)
(* time slept since the last submission.                                   *)
(* stream_req is the local of lines 131-136; last_record is the log        *)
(* record emitted last; auth_uri is what inject_rtsp_auth returned to its  *)
(* caller.                                                                 *)
(***************************************************************************)
VARIABLES pc, error, config, username, password, profile_indices, profiles,
          pos, default_profile, stream_uri, rtsp_request, outcome,
          cycle_log, prev_outcomes, fetched, built, profile_fetches, waited,
          auth_uri, last_record, stream_req

cfgVars == <<config, username, password>>
locals == <<default_profile, stream_req, stream_uri, rtsp_request>>
history == <<cycle_log, prev_outcomes, profile_fetches, waited>>
vars == <<pc, error, config, username, password, profile_indices, profiles,
          pos, default_profile, stream_uri, rtsp_request, outcome,
          cycle_log, prev_outcomes, fetched, built, profile_fetches, waited,
          auth_uri, last_record, stream_req>>

NoError == [kind |-> "none", at |-> "none"]

(***************************************************************************)
(* Logging (main.py line 20): the root logger is configured at level INFO, *)
(* so a call below that level emits no record.  last_record is the record  *)
(* emitted last.                                                           *)
(***************************************************************************)
LevelNo(level) ==
    CASE level = "DEBUG" -> 10
      [] level = "INFO" -> 20
      [] level = "ERROR" -> 40

RootLevel == "INFO"

NoRecord == [level |-> "NONE", msg |-> <<>>]

\* The last record after a logging call, given the last record before it.
Logged(before, level, msg) ==
    IF LevelNo(level) >= LevelNo(RootLevel) THEN [level |-> level, msg |-> msg]
    ELSE before

\* str(default_profile), as far as the model knows a profile.
ProfileDump(p) == <<"token", "=", str(p.token)>>

StreamUriLine(uri) == <<"Stream URI", ":", " ">> \o uri
TimeoutLine ==
    <<"RTSP stream provider did not return within specified timeout of 10s.">>
AnnouncedLine == <<"Announced all streams. Repeating in 1 second.">>

Unset ==
    /\ error = NoError
    /\ profile_indices = <<>>
    /\ profiles = <<>>
    /\ pos = 0
    /\ default_profile = NoProfile
    /\ stream_req = NoStreamReq
    /\ rtsp_request = NoRequest
    /\ outcome = "none"
    /\ cycle_log = <<>>
    /\ prev_outcomes = <<>>
    /\ fetched = FALSE
    /\ built = FALSE
    /\ profile_fetches = 0
    /\ waited = 0
    /\ auth_uri = <<>>
    /\ last_record = NoRecord

Init ==
    /\ pc = "config"
    /\ config \in ConfigValues
    /\ username = <<"admin">>
    /\ password = <<"pw">>
    /\ stream_uri = <<>>
    /\ Unset

\* An exception nobody catches ends the process.
Raise(e) ==
    /\ pc' = "crashed"
    /\ error' = [kind |-> e, at |-> pc]

\* Lines 105-107 without line 108: an empty list stays empty.
ReadConfig_no_default ==
    /\ pc = "config"
    /\ LET d == decode(IF config.present THEN config.text ELSE <<"0">>)
       IN  IF d.raised
           THEN /\ Raise("ValueError")
                /\ UNCHANGED profile_indices
           ELSE /\ pc' = "get_profiles"
                /\ profile_indices' = d.value
                /\ UNCHANGED error
    /\ UNCHANGED <<cfgVars, auth_uri, last_record, profiles, pos, locals, outcome, history, fetched, built>>

\* Lines 105-108: decode PROFILE_INDEX (default "0"); an empty list becomes [0].
ReadConfig ==
    /\ pc = "config"
    /\ LET d == decode(IF config.present THEN config.text ELSE <<"0">>)
       IN  IF d.raised
           THEN /\ Raise("ValueError")
                /\ UNCHANGED profile_indices
           ELSE /\ pc' = "get_profiles"
                /\ profile_indices' = IF d.value = <<>> THEN <<0>> ELSE d.value
                /\ UNCHANGED error
    /\ UNCHANGED <<cfgVars, auth_uri, last_record, profiles, pos, locals, outcome, history, fetched, built>>

\* Line 119: the device answers with its profile list, or the call raises.
GetProfiles ==
    /\ pc = "get_profiles"
    /\ profile_fetches' = profile_fetches + 1
    /\ \/ \E n \in 0..MaxProfiles :
            /\ profiles' = ProfileList(n)
            /\ pc' = "validate"
            /\ UNCHANGED error
       \/ /\ Raise("DeviceUnavailable")
          /\ UNCHANGED profiles
    /\ UNCHANGED <<cfgVars, auth_uri, last_record, profile_indices, pos, locals, outcome, cycle_log,
                   prev_outcomes, waited, fetched, built>>

\* Lines 120-121, with the test written len(profiles) < max(profile_indices).
Validate_off_by_one ==
    /\ pc = "validate"
    /\ IF Len(profiles) < Max(profile_indices)
       THEN Raise("ProfileUnavailable") /\ UNCHANGED pos
       ELSE pc' = "for" /\ pos' = 1 /\ UNCHANGED error
    /\ UNCHANGED <<cfgVars, auth_uri, last_record, profile_indices, profiles, locals, outcome, history,
                   fetched, built>>

\* Lines 120-123: the startup validation; on success the loop is entered.
Validate ==
    /\ pc = "validate"
    /\ IF Len(profiles) < Max(profile_indices) + 1
       THEN Raise("ProfileUnavailable") /\ UNCHANGED pos
       ELSE pc' = "for" /\ pos' = 1 /\ UNCHANGED error
    /\ UNCHANGED <<cfgVars, auth_uri, last_record, profile_indices, profiles, locals, outcome, history,
                   fetched, built>>

\* profiles[i] for a Python list: i counts from the end when negative.
InRange(i) == 0 - Len(profiles) <= i /\ i < Len(profiles)
Lookup(i) == IF i >= 0 THEN profiles[i + 1] ELSE profiles[Len(profiles) + i + 1]

\* Lines 124-128 with an index that was announced in this cycle skipped.
ForNext_dedup ==
    /\ pc = "for"
    /\ pos <= Len(profile_indices)
    /\ IF \E k \in 1..Len(cycle_log) : cycle_log[k].index = profile_indices[pos]
       THEN /\ pos' = pos + 1
            /\ UNCHANGED <<pc, error, default_profile>>
       ELSE IF InRange(profile_indices[pos])
            THEN /\ default_profile' = Lookup(profile_indices[pos])
                 /\ pc' = "fetch"
                 /\ UNCHANGED <<error, pos>>
            ELSE /\ Raise("IndexError")
                 /\ UNCHANGED <<default_profile, pos>>
    /\ fetched' = FALSE
    /\ built' = FALSE
    /\ waited' = 0
    /\ UNCHANGED <<cfgVars, auth_uri, last_record, profile_indices, profiles, stream_req,
                   stream_uri, rtsp_request, outcome, cycle_log, prev_outcomes,
                   profile_fetches>>

\* Lines 124-128: the for loop takes the next index and selects its profile.
ForNext ==
    /\ pc = "for"
    /\ pos <= Len(profile_indices)
    /\ IF InRange(profile_indices[pos])
       THEN /\ default_profile' = Lookup(profile_indices[pos])
            /\ last_record' =
                  Logged(Logged(last_record, "DEBUG", <<"Selected Profile", ":">>),
                         "DEBUG", ProfileDump(Lookup(profile_indices[pos])))
            /\ pc' = "fetch"
            /\ UNCHANGED error
       ELSE /\ Raise("IndexError")
            /\ UNCHANGED <<default_profile, last_record>>
    /\ fetched' = FALSE
    /\ built' = FALSE
    /\ waited' = 0
    /\ UNCHANGED <<cfgVars, auth_uri, profile_indices, profiles, pos, stream_req,
                   stream_uri, rtsp_request, outcome, cycle_log, prev_outcomes,
                   profile_fetches>>

\* Lines 153-154: the for loop is exhausted; its else branch runs.
ForElse ==
    /\ pc = "for"
    /\ pos > Len(profile_indices)
    /\ last_record' = Logged(last_record, "DEBUG", AnnouncedLine)
    /\ pc' = "sleep"
    /\ UNCHANGED <<error, cfgVars, auth_uri, profile_indices, profiles, pos, locals, outcome,
                   history, fetched, built>>

\* Lines 130-139 with the stream URI of an earlier iteration used again
\* instead of a new GetStreamUri call.
GetStreamUri_cached ==
    /\ pc = "fetch"
    /\ stream_req' = GetStreamUriRequest(default_profile)
    /\ \/ /\ stream_uri # <<>>
          /\ pc' = "build"
          /\ UNCHANGED <<stream_uri, fetched, last_record, error>>
       \/ \E u \in DeviceUris :
            /\ stream_uri = <<>>
            /\ stream_uri' = u
            /\ last_record' = Logged(last_record, "INFO", StreamUriLine(u))
            /\ fetched' = TRUE
            /\ pc' = "build"
            /\ UNCHANGED error
       \/ /\ Raise("DeviceUnavailable")
          /\ UNCHANGED <<stream_uri, fetched, last_record>>
    /\ UNCHANGED <<cfgVars, auth_uri, profile_indices, profiles, pos, default_profile,
                   rtsp_request, outcome, history, built>>

\* Lines 130-139: GetStreamUri for the token of the selected profile returns a
\* URI, or the call raises.
GetStreamUri ==
    /\ pc = "fetch"
    /\ stream_req' = GetStreamUriRequest(default_profile)
    /\ \/ \E u \in DeviceUris :
            /\ stream_uri' = u
            /\ last_record' = Logged(last_record, "INFO", StreamUriLine(u))
            /\ fetched' = TRUE
            /\ pc' = "build"
            /\ UNCHANGED error
       \/ /\ Raise("DeviceUnavailable")
          /\ UNCHANGED <<stream_uri, fetched, last_record>>
    /\ UNCHANGED <<cfgVars, auth_uri, profile_indices, profiles, pos, default_profile,
                   rtsp_request, outcome, history, built>>

\* Lines 141-146: parse_url and the request builder; a ValueError of either
\* is not caught.
BuildRequest ==
    /\ pc = "build"
    /\ \E req \in {rtsp_uri_to_request_message(stream_uri, username, password)} :
          IF parse_url(stream_uri).raised \/ req.raised
          THEN /\ Raise("ValueError")
               /\ UNCHANGED <<rtsp_request, built>>
          ELSE /\ rtsp_request' = req
               /\ built' = TRUE
               /\ pc' = "submit"
               /\ UNCHANGED error
    /\ UNCHANGED <<cfgVars, auth_uri, last_record, profile_indices, profiles, pos, default_profile, stream_req,
                   stream_uri, outcome, history, fetched>>

\* What one submission adds to the history of the cycle.
LogEntry(result) ==
    [pos |-> pos, index |-> profile_indices[pos], token |-> default_profile.token,
     req_token |-> stream_req.ProfileToken,
     uri |-> stream_uri, request |-> rtsp_request, fresh |-> fetched /\ built,
     timeout |-> RequestTimeout, outcome |-> result]

\* Line 149: the request is sent; the provider acknowledges it, or the call
\* raises ProviderNotAvailable once the timeout has passed.
Submit ==
    /\ pc = "submit"
    /\ \E result \in {"ack", "timeout"} :
            /\ outcome' = result
            /\ cycle_log' = Append(cycle_log, LogEntry(result))
    /\ pc' = "returned"
    /\ UNCHANGED <<error, cfgVars, auth_uri, last_record, profile_indices, profiles, pos, locals,
                   prev_outcomes, profile_fetches, waited, fetched, built>>

\* Line 149 returns normally: the end of the loop body.
HandleAck ==
    /\ pc = "returned"
    /\ outcome = "ack"
    /\ pos' = pos + 1
    /\ pc' = "for"
    /\ UNCHANGED <<error, cfgVars, auth_uri, last_record, profile_indices, profiles, locals, outcome,
                   history, fetched, built>>

\* Lines 150-152 with break for continue: the for loop is left, its else
\* branch is skipped and the while loop starts the next pass at once.
HandleTimeout_break ==
    /\ pc = "returned"
    /\ outcome = "timeout"
    /\ last_record' = Logged(last_record, "ERROR", TimeoutLine)
    /\ pos' = 1
    /\ pc' = "for"
    /\ prev_outcomes' = [k \in 1..Len(cycle_log) |-> cycle_log[k].outcome]
    /\ cycle_log' = <<>>
    /\ UNCHANGED <<error, cfgVars, auth_uri, profile_indices, profiles, locals, outcome,
                   profile_fetches, waited, fetched, built>>

\* Lines 148-152 with the request sent again after a timeout.
HandleTimeout_retry ==
    /\ pc = "returned"
    /\ outcome = "timeout"
    /\ last_record' = Logged(last_record, "ERROR", TimeoutLine)
    /\ pc' = "submit"
    /\ UNCHANGED <<error, cfgVars, auth_uri, profile_indices, profiles, pos, locals, outcome,
                   history, fetched, built>>

\* Lines 150-152: ProviderNotAvailable is caught and logged, and the for loop
\* continues.
HandleTimeout ==
    /\ pc = "returned"
    /\ outcome = "timeout"
    /\ last_record' = Logged(last_record, "ERROR", TimeoutLine)
    /\ pos' = pos + 1
    /\ pc' = "for"
    /\ UNCHANGED <<error, cfgVars, auth_uri, profile_indices, profiles, locals, outcome,
                   history, fetched, built>>

\* Line 155 with the profile list fetched again for every cycle.
Sleep_refetch ==
    /\ pc = "sleep"
    /\ pc' = "for"
    /\ pos' = 1
    /\ waited' = waited + SleepSeconds
    /\ prev_outcomes' = [k \in 1..Len(cycle_log) |-> cycle_log[k].outcome]
    /\ cycle_log' = <<>>
    /\ \E n \in Len(profiles)..MaxProfiles : profiles' = ProfileList(n)
    /\ profile_fetches' = profile_fetches + 1
    /\ UNCHANGED <<error, cfgVars, auth_uri, last_record, profile_indices, locals, outcome, fetched, built>>

\* Line 155 and back to line 123: sleep, then start the next cycle.
Sleep ==
    /\ pc = "sleep"
    /\ pc' = "for"
    /\ pos' = 1
    /\ waited' = waited + SleepSeconds
    /\ prev_outcomes' = [k \in 1..Len(cycle_log) |-> cycle_log[k].outcome]
    /\ cycle_log' = <<>>
    /\ UNCHANGED <<error, cfgVars, auth_uri, last_record, profile_indices, profiles, locals, outcome,
                   profile_fetches, fetched, built>>

Next ==
    \/ ReadConfig
    \/ GetProfiles
    \/ Validate
    \/ ForNext
    \/ ForElse
    \/ GetStreamUri
    \/ BuildRequest
    \/ Submit
    \/ HandleAck
    \/ HandleTimeout
    \/ Sleep

Spec == Init /\ [][Next]_vars

\* Every call returns: a step that can be taken is eventually taken.
FairSpec == Spec /\ WF_vars(Next)

(***************************************************************************)
(* The request builder on its own: the build step of main() (lines         *)
(* 141-146) applied to every stream URI and credentials of the sets below. *)
(***************************************************************************)
Schemes == {<<"rtsp">>, <<"RTSP">>}
UserInfos == {<<>>, <<"u", ":", "p", "@">>}
Hosts == {<<"cam">>, <<"CAM">>}
Ports == {<<>>, <<":", "554">>, <<":", "0">>, <<":", "x">>, <<":", "70000">>}
Paths == {<<"/", "track1">>, <<"/", "a", "&", "amp", ";", "b">>, <<"/", "a", ";", "p">>,
          <<>>}
Queries == {<<>>,
            <<"?", "x", "=", "1", "&", "amp", ";", "y", "=", "2">>,
            <<"?", "a", "=", "1", "&", "a", "=", "2">>,
            <<"?", "a", "=", "&", "a", "=", "2">>,
            <<"?", "x", "=", "1", "&", "lt", "=", "2">>,
            <<"?", "a", "=", "2", "&", "b", "=", "1", "&", "a", "=", "1", "&", "a", "=", "2">>,
            <<"?", "b", "&", "a", "=", "1", "&", "b", "=", "2", "&", "b", "=", "1">>}
Fragments == {<<>>, <<"#", "f">>}

\* scheme://[userinfo@]host[:port]path[?query][#fragment]
UriInputs ==
    {s \o <<":", "/", "/">> \o ui \o h \o po \o pa \o q \o f :
        s \in Schemes, ui \in UserInfos, h \in Hosts, po \in Ports, pa \in Paths,
        q \in Queries, f \in Fragments}

\* html.escape, the inverse of html.unescape on the characters of the model:
\* "&" becomes "&amp;" and "<" becomes "&lt;".
RECURSIVE html_escape(_)
html_escape(s) ==
    IF s = <<>> THEN <<>>
    ELSE IF s[1] = "&" THEN <<"&", "amp", ";">> \o html_escape(Tail(s))
    ELSE IF s[1] = "<" THEN <<"&", "lt", ";">> \o html_escape(Tail(s))
    ELSE <<s[1]>> \o html_escape(Tail(s))

\* The stream URIs a device sends: the URIs above, as they are or HTML-escaped.
StreamUriInputs == UriInputs \cup {html_escape(u) : u \in UriInputs}

Usernames == {<<"admin">>, <<"root">>}
Passwords == {<<"pw">>, <<"p", "@", "w">>}

\* main() with the default configuration and a device with one profile, when
\* GetStreamUri has returned for the first index.
InitBuild ==
    /\ pc = "build"
    /\ error = NoError
    /\ config = [present |-> FALSE, text |-> <<>>]
    /\ username \in Usernames
    /\ password \in Passwords
    /\ profile_indices = <<0>>
    /\ profiles = ProfileList(1)
    /\ pos = 1
    /\ default_profile = ProfileList(1)[1]
    /\ stream_req = GetStreamUriRequest(ProfileList(1)[1])
    /\ stream_uri \in StreamUriInputs
    /\ rtsp_request = NoRequest
    /\ outcome = "none"
    /\ cycle_log = <<>>
    /\ prev_outcomes = <<>>
    /\ fetched = TRUE
    /\ built = FALSE
    /\ profile_fetches = 1
    /\ waited = 0
    /\ auth_uri = <<>>
    /\ last_record = Logged(NoRecord, "INFO", StreamUriLine(stream_uri))

NextBuild == BuildRequest

SpecBuild == InitBuild /\ [][NextBuild]_vars

(***************************************************************************)
(* Properties.                                                             *)
(***************************************************************************)
LoopPcs == {"for", "fetch", "build", "submit", "returned", "sleep"}

\* The startup validation has been passed.
InLoop == pc \in LoopPcs \/ (pc = "crashed" /\ error.at \in LoopPcs)

\* The startup validation has been made.
Validated == InLoop \/ (pc = "crashed" /\ error.at = "validate")

NumIndices == Len(profile_indices)

Outcomes(log) == [k \in 1..Len(log) |-> log[k].outcome]

\* C1: a timeout of the submission for one index is followed by the attempt
\* of the next index of the same cycle (or, after the last index, by the
\* sleep and the next cycle): when the loop reaches the sleep, every
\* configured index has been fetched and submitted in that cycle, whatever
\* the outcomes were.
C1_TimeoutLeavesCycleIntact ==
    /\ [](pc = "sleep" =>
            /\ Len(cycle_log) = NumIndices
            /\ \A k \in 1..NumIndices : cycle_log[k].pos = k /\ cycle_log[k].fresh)
    /\ [][/\ (pc = "returned" /\ outcome = "timeout") =>
                (pc' = "for" /\ pos' = pos + 1 /\ cycle_log' = cycle_log)
          /\ (pc = "for" /\ pos <= NumIndices) =>
                (pc' \in {"fetch", "crashed"} /\ pos' = pos)
          /\ (pc = "for" /\ pos > NumIndices) => pc' = "sleep"
          /\ pc = "sleep" => (pc' = "for" /\ pos' = 1)]_vars

\* A cycle of two indices is complete although its first submission timed out.
C1_Witness ==
    /\ pc = "sleep"
    /\ NumIndices = 2
    /\ Outcomes(cycle_log) = <<"timeout", "ack">>

\* C2: when the largest configured index is not below the number of profiles
\* the device returned, the validation ends the process with
\* ProfileUnavailable before any stream URI is fetched or any request is
\* submitted; ProfileUnavailable is raised by the startup validation only.
C2_StartupValidation ==
    /\ (Validated /\ Max(profile_indices) >= Len(profiles)) =>
          /\ pc = "crashed"
          /\ error = [kind |-> "ProfileUnavailable", at |-> "validate"]
          /\ stream_uri = <<>>
          /\ ~fetched
          /\ cycle_log = <<>>
          /\ prev_outcomes = <<>>
    /\ (pc = "crashed" /\ error.kind = "ProfileUnavailable") => error.at = "validate"

\* Index 2 is configured and the device has the two profiles 0 and 1.
C2_Witness ==
    /\ pc = "crashed"
    /\ error.kind = "ProfileUnavailable"
    /\ Max(profile_indices) = 2
    /\ Len(profiles) = 2

\* C3: a failure of GetStreamUri is recoverable: it never ends the process.
C3_FetchFailureRecoverable == ~(pc = "crashed" /\ error.at = "fetch")

\* C4: a stream URI that cannot be parsed is fatal for its request only: it
\* never ends the process.
C4_MalformedUriNotFatal == ~(pc = "crashed" /\ error.at = "build")

\* C5: once the startup validation has passed, every state of the loop is
\* followed by the end of the cycle in progress and so by a new cycle.
C5_NoTerminalState == (pc \in LoopPcs) ~> (pc = "sleep")

\* C6: a cycle in which every device call succeeds submits one request per
\* entry of the configured list, in the configured order, repeated indices
\* included, each built from the URI fetched for that entry; for the indices
\* [0, 1] and the URIs rtsp://cam/track1 and rtsp://cam/track2 these are two
\* requests with entity_path /rtsp_request/track1 and /rtsp_request/track2.
C6_OneRequestPerEntry ==
    pc = "sleep" =>
        /\ Len(cycle_log) = NumIndices
        /\ \A k \in 1..NumIndices :
              /\ cycle_log[k].index = profile_indices[k]
              /\ cycle_log[k].request =
                    rtsp_uri_to_request_message(cycle_log[k].uri, username, password)
        /\ (/\ profile_indices = <<0, 1>>
            /\ cycle_log[1].uri = Track1Uri
            /\ cycle_log[2].uri = Track2Uri) =>
              /\ cycle_log[1].request.header.entity_path =
                    <<"/", "rtsp_request", "/", "track1">>
              /\ cycle_log[2].request.header.entity_path =
                    <<"/", "rtsp_request", "/", "track2">>

\* The cycle of the example has ended.
C6_Witness ==
    /\ pc = "sleep"
    /\ profile_indices = <<0, 1>>
    /\ cycle_log[1].uri = Track1Uri
    /\ cycle_log[2].uri = Track2Uri

\* C7: a request whose submission timed out is not submitted again: every
\* position of the list has at most one submission per cycle, a timeout is
\* followed by the next position, and every request that is submitted (also
\* the one for an index that timed out in the cycle before) was built in the
\* same iteration from a URI fetched in that iteration.
C7_NoInnerRetry ==
    /\ [](/\ \A j, k \in 1..Len(cycle_log) :
                j < k => cycle_log[j].pos < cycle_log[k].pos
          /\ pc = "submit" => (fetched /\ built)
          /\ \A k \in 1..Len(cycle_log) : cycle_log[k].fresh)
    /\ [][/\ (pc = "returned" /\ outcome = "timeout") => pc' = "for"
          /\ pc = "sleep" => (pc' = "for" /\ pos' = 1 /\ cycle_log' = <<>>)]_vars

\* The index that timed out in the last cycle is submitted again, with a
\* request built in this cycle.
C7_Witness ==
    /\ pc = "returned"
    /\ pos = 1
    /\ prev_outcomes # <<>>
    /\ prev_outcomes[1] = "timeout"
    /\ cycle_log[1].fresh

\* C8: the sleep of one time unit happens exactly once between two cycles,
\* only after every index of the cycle was attempted, whatever the outcomes,
\* and never between two indices of a cycle.
C8_SleepBetweenCycles ==
    [][/\ (pc' = "sleep" /\ pc # "sleep") =>
            (pos = NumIndices + 1 /\ Len(cycle_log) = NumIndices)
       /\ (pc = "for" /\ pos > NumIndices) => pc' = "sleep"
       /\ pc = "sleep" => (pc' = "for" /\ pos' = 1 /\ waited' = SleepSeconds)
       /\ (pc \in LoopPcs /\ pos' = 1 /\ pc' = "for") => pc = "sleep"
       /\ (pc \in LoopPcs /\ pc # "sleep") => waited' = 0]_vars

\* The loop sleeps after a cycle whose last submission timed out.
C8_Witness ==
    /\ pc = "sleep"
    /\ NumIndices = 2
    /\ cycle_log[2].outcome = "timeout"

\* C9: the profile list is fetched once, at startup, and never changes
\* afterwards; and what a cycle submits depends on nothing of an earlier
\* cycle: each request is built in its own iteration, from the URI fetched in
\* that iteration, for the profile the index selects in the list.
C9_ProfilesFetchedOnce ==
    /\ [](/\ profile_fetches <= 1
          /\ Validated => profile_fetches = 1
          /\ \A k \in 1..Len(cycle_log) :
                /\ cycle_log[k].fresh
                /\ cycle_log[k].token = Lookup(cycle_log[k].index).token
                /\ cycle_log[k].request =
                      rtsp_uri_to_request_message(cycle_log[k].uri, username, password))
    /\ [][pc # "get_profiles" => profiles' = profiles]_vars

\* A second cycle is under way with the profile list of the first.
C9_Witness ==
    /\ pc = "returned"
    /\ prev_outcomes # <<>>
    /\ profile_fetches = 1
    /\ Len(profiles) = 2

\* C10 as stated: the host, the path and the entity path of the request are
\* those parse_url gives for the stream URI.
C10_FieldsOfRawUri ==
    pc = "submit" =>
        /\ rtsp_request.endpoint.host = parse_url(stream_uri).ip
        /\ rtsp_request.endpoint.path = parse_url(stream_uri).url_suffix
        /\ rtsp_request.header.entity_path =
              <<"/", "rtsp_request">> \o parse_url(stream_uri).url_suffix
        /\ rtsp_request.method = "PLAY"
        /\ rtsp_request.digest_auth.username = username
        /\ rtsp_request.digest_auth.password = password
        /\ rtsp_request.digest_auth.algorithm = "MD5"

\* C10 as amended: the host, the path and the entity path of the request are
\* those parse_url gives for the HTML-unescaped stream URI; the method is PLAY
\* and the digest auth holds the given credentials and MD5.
C10_FieldsOfUnescapedUri ==
    pc = "submit" =>
        /\ rtsp_request.endpoint.host = parse_url(html_unescape(stream_uri)).ip
        /\ rtsp_request.endpoint.path = parse_url(html_unescape(stream_uri)).url_suffix
        /\ rtsp_request.header.entity_path =
              <<"/", "rtsp_request">> \o parse_url(html_unescape(stream_uri)).url_suffix
        /\ rtsp_request.method = "PLAY"
        /\ rtsp_request.digest_auth.username = username
        /\ rtsp_request.digest_auth.password = password
        /\ rtsp_request.digest_auth.algorithm = "MD5"

\* A request was built from a URI with user info, an upper-case host, a port
\* and an escaped query, for credentials other than the default ones.
C10_Witness ==
    /\ pc = "submit"
    /\ built
    /\ stream_uri = <<"RTSP", ":", "/", "/", "u", ":", "p", "@", "CAM", ":", "554",
                      "/", "track1", "?", "x", "=", "1", "&", "amp", ";", "y", "=", "2">>
    /\ username = <<"root">>
    /\ password = <<"p", "@", "w">>

(***************************************************************************)
(* inject_rtsp_auth (main.py lines 75-91), which main() never calls, with  *)
(* urllib.parse.urlunparse.                                                *)
(***************************************************************************)
\* urlunparse((scheme, netloc, path, params, query, fragment))
urlunparse(scheme, netloc, path, params, query, fragment) ==
    LET withParams == IF params # <<>> THEN path \o <<";">> \o params ELSE path
        withNetloc ==
            IF netloc # <<>>
            THEN <<"/", "/">> \o netloc
                     \o (IF withParams # <<>> /\ withParams[1] # "/"
                         THEN <<"/">> \o withParams ELSE withParams)
            ELSE withParams
        withScheme == IF scheme # <<>> THEN scheme \o <<":">> \o withNetloc
                      ELSE withNetloc
        withQuery == IF query # <<>> THEN withScheme \o <<"?">> \o query
                     ELSE withScheme
    IN  IF fragment # <<>> THEN withQuery \o <<"#">> \o fragment ELSE withQuery

\* f"{parsed.hostname}": the host, or the text None when there is no host.
FormatHostname(h) == IF h = <<>> THEN <<"None">> ELSE h

inject_rtsp_auth(uri, user, pass) ==
    The({LET po == port(parsed)
             netloc_with_auth ==
                 user \o <<":">> \o pass \o <<"@">> \o FormatHostname(hostname(parsed))
         IN  IF po.kind = "ValueError" THEN [raised |-> TRUE, value |-> <<>>]
             ELSE [raised |-> FALSE,
                   value |-> urlunparse(parsed.scheme,
                                 IF po.kind = "int" /\ po.val # 0
                                 THEN netloc_with_auth \o <<":", str(po.val)>>
                                 ELSE netloc_with_auth,
                                 parsed.path, parsed.params, parsed.query,
                                 parsed.fragment)] :
         parsed \in {urlparse(uri)}})

\* A caller of inject_rtsp_auth with a stream URI and the credentials.
InitInject ==
    /\ pc = "inject"
    /\ config = [present |-> FALSE, text |-> <<>>]
    /\ username \in Usernames
    /\ password \in Passwords
    /\ stream_uri \in UriInputs
    /\ Unset

InjectAuth ==
    /\ pc = "inject"
    /\ \E r \in {inject_rtsp_auth(stream_uri, username, password)} :
          IF r.raised
          THEN Raise("ValueError") /\ UNCHANGED auth_uri
          ELSE pc' = "injected" /\ auth_uri' = r.value /\ UNCHANGED error
    /\ UNCHANGED <<cfgVars, last_record, profile_indices, profiles, pos, locals,
                   outcome, history, fetched, built>>

NextInject == InjectAuth

SpecInject == InitInject /\ [][NextInject]_vars

\* The URI handed to inject_rtsp_auth and the URI it returned, parsed.
ParsedIn == urlparse(stream_uri)
ParsedOut == urlparse(auth_uri)

\* C13: parsing the URI inject_rtsp_auth returns yields the host, port, path
\* and query of the URI it was given, the scheme and the fragment are those of
\* the given URI, and the network location is user:pass@host[:port].
C13_InjectAuthRoundTrip ==
    pc = "injected" =>
        /\ hostname(ParsedOut) = hostname(ParsedIn)
        /\ port(ParsedOut) = port(ParsedIn)
        /\ ParsedOut.path = ParsedIn.path
        /\ ParsedOut.query = ParsedIn.query
        /\ ParsedOut.scheme = ParsedIn.scheme
        /\ ParsedOut.fragment = ParsedIn.fragment
        /\ ParsedOut.netloc =
              username \o <<":">> \o password \o <<"@">> \o hostname(ParsedIn)
                  \o (IF port(ParsedIn).kind = "int"
                      THEN <<":", str(port(ParsedIn).val)>> ELSE <<>>)

(***************************************************************************)
(* The query of the request that was built, field by field: the query of   *)
(* the unescaped stream URI split at "&", each field a name and, after the *)
(* first "=", a value.                                                     *)
(***************************************************************************)
BuiltQuery == urlparse(html_unescape(stream_uri)).query
BuiltFields == SplitOn(BuiltQuery, "&")
HasValue(f) == Find(f, {"="}) > 0
FieldName(f) == Head1(f, "=")
FieldValue(f) == Tail1(f, "=")

\* C11: every key of the query has one value in the request that was built,
\* the value of the first field with that key, however often and in whatever
\* order the key is repeated.
C11_FirstOccurrenceWins ==
    pc = "submit" =>
        \A i \in 1..Len(BuiltFields) :
            (/\ HasValue(BuiltFields[i])
             /\ \A j \in 1..(i - 1) :
                   HasValue(BuiltFields[j]) =>
                       FieldName(BuiltFields[j]) # FieldName(BuiltFields[i])) =>
                /\ FieldName(BuiltFields[i]) \in DOMAIN rtsp_request.endpoint.query_params
                /\ rtsp_request.endpoint.query_params[FieldName(BuiltFields[i])] =
                      FieldValue(BuiltFields[i])

(***************************************************************************)
(* The stream URI is the HTML-escaped form of a URI u exactly when escaping *)
(* its unescaped text gives it back, and then u is that unescaped text.     *)
(***************************************************************************)
PlainUri == html_unescape(stream_uri)
IsEscapedForm == html_escape(PlainUri) = stream_uri

\* C12: when the stream URI is the HTML-escaped form of a URI u, the request
\* built from it is the request that is built from u itself.
C12_EscapedFormBuildsSame ==
    (pc = "submit" /\ IsEscapedForm) =>
        rtsp_request = rtsp_uri_to_request_message(PlainUri, username, password)

(***************************************************************************)
(* The entries of the configured value: its parts between the commas,      *)
(* without the spaces around them, the empty ones left out.                *)
(***************************************************************************)
IsEntry(part) == strip(part) # <<>>
ConfigEntries == SelectSeq(SplitOn(config.text, ","), IsEntry)
ConfigDecoded == pc # "config" /\ error.at # "config"

\* C14: once the configuration is decoded, the index list holds the integers
\* of the entries of the configured value in their order, it is the single
\* index 0 when the value is absent or has no entry, and the list the loop
\* iterates over is never empty.
C14_IndexListFromConfig ==
    ConfigDecoded =>
        /\ (config.present /\ ConfigEntries # <<>>) =>
              /\ Len(profile_indices) = Len(ConfigEntries)
              /\ \A k \in 1..Len(ConfigEntries) :
                    profile_indices[k] = int(strip(ConfigEntries[k])).value
        /\ (~config.present \/ ConfigEntries = <<>>) => profile_indices = <<0>>
        /\ profile_indices # <<>>

\* The loop runs with the list [1] decoded from the value ", 1": an empty
\* entry was dropped and a space was stripped.
C14_Witness ==
    /\ pc = "fetch"
    /\ config = [present |-> TRUE, text |-> <<",", " ", "1">>]
    /\ profile_indices = <<1>>

(***************************************************************************)
(* A text contains a word sequence when the sequence occurs in it.         *)
(***************************************************************************)
Contains(text, w) ==
    \E i \in 1..(Len(text) - Len(w) + 1) : SubSeq(text, i, i + Len(w) - 1) = w

\* C15: no log record that is emitted contains the configured username or
\* the configured password.
C15_CredentialsNeverLogged ==
    /\ ~Contains(last_record.msg, username)
    /\ ~Contains(last_record.msg, password)

\* C16: after the startup validation has passed, every configured index i
\* satisfies 0 <= i < number of fetched profiles, no profile lookup is out of
\* bounds, and the profile selected for an index i is the one at position i
\* of the fetched list.
C16_IndicesInBounds ==
    InLoop =>
        /\ \A k \in 1..Len(profile_indices) :
              0 <= profile_indices[k] /\ profile_indices[k] < Len(profiles)
        /\ error.kind # "IndexError"
        /\ pc \in {"fetch", "build", "submit", "returned"} =>
              default_profile = profiles[profile_indices[pos] + 1]

\* C17: the steps for one index are sequential.  A request that is submitted
\* was built, in the same iteration, from the URI that a GetStreamUri call of
\* that iteration returned for the token of the profile of that index; only a
\* GetStreamUri call changes the URI; and fetch, build, submission and its
\* outcome follow one another, the fetch for the next index starting only
\* when the submission before it was acknowledged or timed out.
C17_StepsInOrder ==
    /\ [](/\ pc \in {"build", "submit"} =>
                /\ fetched
                /\ stream_req.ProfileToken = Lookup(profile_indices[pos]).token
          /\ pc = "submit" =>
                /\ built
                /\ rtsp_request =
                      rtsp_uri_to_request_message(stream_uri, username, password)
          /\ \A k \in 1..Len(cycle_log) :
                /\ cycle_log[k].fresh
                /\ cycle_log[k].req_token = Lookup(cycle_log[k].index).token
                /\ cycle_log[k].request =
                      rtsp_uri_to_request_message(cycle_log[k].uri, username, password)
                /\ cycle_log[k].outcome \in {"ack", "timeout"})
    /\ [][/\ pc # "fetch" => stream_uri' = stream_uri
          /\ pc = "fetch" => pc' \in {"build", "crashed"}
          /\ pc = "build" => pc' \in {"submit", "crashed"}
          /\ pc = "submit" =>
                /\ pc' = "returned"
                /\ Len(cycle_log') = Len(cycle_log) + 1
                /\ cycle_log'[Len(cycle_log')].pos = pos
                /\ cycle_log'[Len(cycle_log')].uri = stream_uri
          /\ pc = "returned" => (pc' = "for" /\ pos' = pos + 1)
          /\ pc' = "fetch" =>
                /\ pc = "for"
                /\ \A k \in 1..Len(cycle_log) : cycle_log[k].pos < pos
                /\ pos > 1 => outcome \in {"ack", "timeout"}]_vars

\* In a second cycle the request for the second index has been submitted,
\* built from another URI than the request for the first index.
C17_Witness ==
    /\ pc = "returned"
    /\ pos = 2
    /\ prev_outcomes # <<>>
    /\ profile_indices = <<0, 1>>
    /\ Len(cycle_log) = 2
    /\ cycle_log[2].req_token = 1
    /\ cycle_log[1].uri # cycle_log[2].uri

====
